---- MODULE Spec2Model ----
(***************************************************************************)
(* filelineindex: the batch packer (Indexer.__index), the index directory  *)
(* sidecars, build_index_for_data / load_index and the lookup              *)
(* LineBatchedIndex.has, over a small file system.                         *)
(*                                                                         *)
(* A Python str is a sequence of code points; a file is the sequence of    *)
(* characters written to it; a path is a str relative to the working       *)
(* directory.  A Python list of str is a sequence of such sequences.       *)
(***************************************************************************)
EXTENDS Integers, Sequences, FiniteSets, TLC

\* ---------------------------------------------------------------- bounds
MaxLineLen == 2      \* characters of an input line, before the terminator
MaxLines == 3        \* lines handed to index_lines
MaxTotalLen == 4     \* characters of all lines of one call, terminators aside
MaxWanted == 2       \* largest wanted_file_count tried
MaxFileCount == 3    \* largest small file count passed to IndexerOptions
MaxLineCount == 4    \* largest line count handed to __find_optimal_file_number
MaxMergeFiles == 2   \* input files of one merge_sorted_files call
MaxFileLines == 2    \* lines of one input file of merge_sorted_files
MaxItems == 3        \* items of the sorted list handed to bs_upper_index
MaxIndexedLines == 1 \* lines of one input file of Indexer.index

\* ------------------------------------------------------------ characters
NL == 10             \* "\n"
Slash == 47          \* "/" (os.sep)
Zero == 48           \* "0"
\* The characters of input lines: "\t" (9, sorts below "\n"), "a" (97) and
\* U+1F600 (128512, four bytes in UTF-8).
Alphabet == {9, 97, 128512}

ResourceDir == <<114, 101, 115>>                  \* "res"
IndexName == <<46, 105, 110, 100, 101, 120>>      \* ".index"
StorageName == <<46, 115, 116, 111, 114, 97, 103, 101>>   \* ".storage"
DatSuffix == <<46, 100, 97, 116>>                 \* ".dat"

\* --------------------------------------------------------- str semantics
Range(f) == {f[i] : i \in DOMAIN f}
Min(a, b) == IF a < b THEN a ELSE b
Max(a, b) == IF a < b THEN b ELSE a

\* Python's str "<": code point by code point, a proper prefix is smaller.
StrLess(a, b) ==
    \E i \in 1..(Min(Len(a), Len(b)) + 1) :
        /\ \A j \in 1..(i - 1) : a[j] = b[j]
        /\ \/ (i > Len(a) /\ i <= Len(b))
           \/ (i <= Len(a) /\ i <= Len(b) /\ a[i] < b[i])

\* Bytes of one code point in UTF-8.
Utf8Width(c) == IF c < 128 THEN 1 ELSE IF c < 2048 THEN 2 ELSE IF c < 65536 THEN 3 ELSE 4

RECURSIVE size_of_line(_)
size_of_line(line) ==
    IF line = <<>> THEN 0 ELSE Utf8Width(Head(line)) + size_of_line(Tail(line))

RECURSIVE Concat(_)
Concat(strs) == IF strs = <<>> THEN <<>> ELSE Head(strs) \o Concat(Tail(strs))

\* str(n) for n >= 0.
RECURSIVE Decimal(_)
Decimal(n) == IF n < 10 THEN <<Zero + n>> ELSE Decimal(n \div 10) \o <<Zero + (n % 10)>>

\* hex(n)[2:].upper() for n >= 0.
HexDigit(d) == IF d < 10 THEN Zero + d ELSE 65 + (d - 10)
RECURSIVE UpperHex(_)
UpperHex(n) == IF n < 16 THEN <<HexDigit(n)>> ELSE UpperHex(n \div 16) \o <<HexDigit(n % 16)>>

RECURSIVE number_width(_)
number_width(group_size) ==
    IF group_size > 0 THEN 1 + number_width(group_size \div 16) ELSE 0

RECURSIVE rjust(_, _, _)
rjust(s, width, fill) == IF Len(s) >= width THEN s ELSE rjust(<<fill>> \o s, width, fill)

\* Variant: the number is not padded.
convert_file_number_bare(number, group_size) == UpperHex(number)

convert_file_number(number, group_size) ==
    rjust(UpperHex(number), number_width(group_size - 1), Zero)

\* os.path.join of two components: an absolute second component stands
\* alone, a separator is added unless the first is empty or ends with one.
join_paths(dir, name) ==
    IF name # <<>> /\ name[1] = Slash THEN name
    ELSE IF dir = <<>> \/ dir[Len(dir)] = Slash THEN dir \o name
    ELSE dir \o <<Slash>> \o name

\* ------------------------------------------------------------ file system
\* disk: path -> characters of the file.  dirs: the directories that exist.
EndOfFirstLine(content) ==
    IF \E i \in 1..Len(content) : content[i] = NL
    THEN CHOOSE i \in 1..Len(content) :
            content[i] = NL /\ \A j \in 1..(i - 1) : content[j] # NL
    ELSE Len(content)

\* file.readline(): the first line with its terminator, "" at end of file.
readline(content) == SubSeq(content, 1, EndOfFirstLine(content))
AfterFirstLine(content) == SubSeq(content, EndOfFirstLine(content) + 1, Len(content))

\* file.readlines() / iterating a file: every line with its terminator.
RECURSIVE readlines(_)
readlines(content) ==
    IF content = <<>> THEN <<>>
    ELSE <<readline(content)>> \o readlines(AfterFirstLine(content))

read_lines(d, path) == readlines(d[path])

InDir(path, dir) ==
    /\ Len(path) > Len(dir) + 1
    /\ SubSeq(path, 1, Len(dir) + 1) = dir \o <<Slash>>

\* Variant: every file goes, wherever it is.
clear_dir_everywhere(d, path) == [p \in {} |-> <<>>]

\* clear_dir: every file and subdirectory below the directory goes.
clear_dir(d, path) ==
    [p \in {q \in DOMAIN d : ~InDir(q, path)} |-> d[p]]

\* clear_dir on the directories: shutil.rmtree takes every subdirectory.
clear_subdirs(ds, path) == {q \in ds : ~InDir(q, path)}

\* The directory a path names to the operating system: separators at its end
\* do not count.
RECURSIVE resolved(_)
resolved(path) ==
    IF Len(path) > 1 /\ path[Len(path)] = Slash
    THEN resolved(SubSeq(path, 1, Len(path) - 1))
    ELSE path

\* make_dir adds the directory to those that exist, unless it is one of them.
make_dir(ds, path) == ds \cup {resolved(path)}

\* open(path, "w").write(...)/open(path, "a").write(...) on the disk.
PutFile(d, path, content, append) ==
    [p \in (DOMAIN d) \cup {path} |->
        IF p = path
        THEN (IF append /\ path \in DOMAIN d THEN d[path] ELSE <<>>) \o content
        ELSE d[p]]

\* A Python argument that is a str or a list of str.
PyStr(s) == [type |-> "str", val |-> s]
PyList(l) == [type |-> "list", val |-> l]

\* filetools.write(lines, path, append): open(path) takes a str only.
write(lines, path, append, d) ==
    IF path.type # "str"
    THEN [err |-> "TypeError", disk |-> d]
    ELSE [err |-> "ok",
          disk |-> PutFile(d, path.val,
                           IF lines.type = "str" THEN lines.val ELSE Concat(lines.val),
                           append)]

\* -------------------------------------------------------- sorted search
None == -1

RECURSIVE bs_loop(_, _, _, _)
bs_loop(item, sorted_items, left_index, right_index) ==
    IF left_index < right_index
    THEN LET mid_index == (left_index + right_index + 1) \div 2
         IN  IF StrLess(item, sorted_items[mid_index + 1])
             THEN bs_loop(item, sorted_items, left_index, mid_index - 1)
             ELSE bs_loop(item, sorted_items, mid_index, right_index)
    ELSE left_index

bs_has(item, sorted_items) ==
    IF \/ Len(sorted_items) = 0
       \/ StrLess(item, sorted_items[1])
       \/ StrLess(sorted_items[Len(sorted_items)], item)
    THEN FALSE
    ELSE sorted_items[bs_loop(item, sorted_items, 0, Len(sorted_items) - 1) + 1] = item

\* Variant: the first index is given for every item that is not below it.
bs_lower_index_first(item, sorted_items) ==
    IF Len(sorted_items) = 0 \/ StrLess(item, sorted_items[1])
    THEN None
    ELSE 0

bs_lower_index(item, sorted_items) ==
    IF Len(sorted_items) = 0 \/ StrLess(item, sorted_items[1])
    THEN None
    ELSE bs_loop(item, sorted_items, 0, Len(sorted_items) - 1)

\* The body of bs_upper_index is that of bs_lower_index, statement by
\* statement.
bs_upper_index(item, sorted_items) ==
    IF Len(sorted_items) = 0 \/ StrLess(item, sorted_items[1])
    THEN None
    ELSE bs_loop(item, sorted_items, 0, Len(sorted_items) - 1)

\* ------------------------------------------------------- IndexerOptions
RECOMMENDED_OS_FILE_LIMIT == 1000000000
DEFAULT_MIN_FILE_COUNT == 1
DEFAULT_MAX_FILE_COUNT == 1000000
DefaultFileNumber == 1000

\* wanted_file_count is <<>> for None and <<n>> for the integer n.
IndexerOptions(min_file_count, max_file_count, wanted_file_count) ==
    [min_file_count |-> min_file_count,
     max_file_count |-> max_file_count,
     wanted_file_count |-> wanted_file_count]

InLimits(count) == 1 <= count /\ count <= RECOMMENDED_OS_FILE_LIMIT

\* Variant: the wanted count is not compared with the minimum and maximum.
is_valid_limits_only(o) ==
    /\ o.wanted_file_count # <<>> => InLimits(o.wanted_file_count[1])
    /\ InLimits(o.min_file_count)
    /\ InLimits(o.max_file_count)
    /\ ~(o.max_file_count < o.min_file_count)

\* TRUE when __raise_if_is_not_valid raises nothing.
is_valid(o) ==
    /\ o.wanted_file_count # <<>> => InLimits(o.wanted_file_count[1])
    /\ InLimits(o.min_file_count)
    /\ InLimits(o.max_file_count)
    /\ ~(o.max_file_count < o.min_file_count)
    /\ o.wanted_file_count # <<>> =>
          ~(\/ o.wanted_file_count[1] < o.min_file_count
            \/ o.max_file_count < o.wanted_file_count[1])

\* Variant: the count is not cut to the number of lines.
find_optimal_file_number_uncut(o, line_count, total_size) ==
    LET wanted == IF o.wanted_file_count = <<>> \/ o.wanted_file_count[1] = 0
                  THEN DefaultFileNumber ELSE o.wanted_file_count[1]
    IN  Min(Max(wanted, o.min_file_count), o.max_file_count)

find_optimal_file_number(o, line_count, total_size) ==
    LET wanted == IF o.wanted_file_count = <<>> \/ o.wanted_file_count[1] = 0
                  THEN DefaultFileNumber ELSE o.wanted_file_count[1]
    IN  Min(Min(Max(wanted, o.min_file_count), line_count), o.max_file_count)

\* ------------------------------------------------------------------ state
VARIABLES
    options,              \* Indexer.__options
    lines,                \* the argument of index_lines
    pc,                   \* "idle", then the position inside __index, then "done"
    disk,                 \* path -> file content
    dirs,                 \* existing directories
    line_count,           \* __index locals
    total_size,
    optimal_file_number,
    processed_size,
    last_line,
    start_lines,
    line_generator,       \* lines the generator has yielded so far
    file_paths,
    file_number,
    progress,             \* Progress.__percentage and what the handler was given
    merging,              \* merge_sorted_files locals and the position inside it
    result,               \* operation -> how its last call ended ("none": not called)
    index,                \* the LineBatchedIndex the caller holds
    has_line,             \* argument and result of the last has call
    has_result,
    args,                 \* arguments of a call made outside a build
    returned              \* how that call ended and what it returned

vars == <<options, lines, pc, disk, dirs, line_count, total_size, optimal_file_number,
          processed_size, last_line, start_lines, line_generator, file_paths,
          file_number, progress, merging, result, index, has_line, has_result, args,
          returned>>

packer == <<line_count, total_size, optimal_file_number, processed_size, last_line,
            start_lines, line_generator, file_paths, file_number, progress>>

Operations == {"index", "index_lines", "build_index_for_data", "load_index"}

\* The build under way: index marks its entry into __index, index_lines
\* does not.
Building == IF result["index"] = "running" THEN "index" ELSE "index_lines"

call == <<args, returned>>
NoCall == [outcome |-> "none", value |-> <<>>]

\* No call of merge_sorted_files is under way.
NotMerging ==
    [pc |-> "idle", values_with_generators |-> <<>>, position |-> <<>>,
     total_line_count |-> 0, generator_count |-> 0, current_line_index |-> 0,
     last_value |-> <<>>, file_number |-> 0, current_limit |-> 0,
     output_paths |-> <<>>, exhausted |-> {}]

\* ---------------------------------------------------------------- Progress
\* A Progress nothing was reported to: __percentage is None, the handler was
\* not called.
FreshProgress == [percentage |-> None, handled |-> <<>>]

\* Progress.report(numerator / denominator): int(100 * fraction), handed on
\* when it differs from the percentage kept.
report(p, numerator, denominator) ==
    LET percentage == (100 * numerator) \div denominator
    IN  IF percentage # p.percentage
        THEN [percentage |-> percentage, handled |-> Append(p.handled, percentage)]
        ELSE p

report_start(p) ==
    IF p.percentage # 0
    THEN [percentage |-> 0, handled |-> Append(p.handled, 0)]
    ELSE p

report_done(p) ==
    IF p.percentage # 100
    THEN [percentage |-> 100, handled |-> Append(p.handled, 100)]
    ELSE p

\* ------------------------------------------------------------------ inputs
\* Lines of 1..MaxLineLen characters without a terminator.
BareLines == UNION {[1..n -> Alphabet] : n \in 1..MaxLineLen}

\* The same lines as a caller passes them that read them from a file.
TerminatedLines == {l \o <<NL>> : l \in BareLines}

BareLen(line) == IF line[Len(line)] = NL THEN Len(line) - 1 ELSE Len(line)

RECURSIVE TotalLen(_)
TotalLen(list) == IF list = <<>> THEN 0 ELSE BareLen(Head(list)) + TotalLen(Tail(list))

\* sorted(X) (Python's order on the strings as passed) for the sets X of at
\* most n lines of the universe with at most MaxTotalLen characters in all.
RECURSIVE SortedListsOf(_, _)
SortedListsOf(universe, n) ==
    IF n = 0 THEN {<<>>}
    ELSE LET shorter == SortedListsOf(universe, n - 1)
             longest == {s \in shorter : Len(s) = n - 1}
             longer == {Append(s, l) : s \in longest, l \in universe}
         IN  shorter \cup
             {s \in longer : /\ TotalLen(s) <= MaxTotalLen
                             /\ n > 1 => StrLess(s[n - 1], s[n])}

\* The lines of one call are all passed bare or all passed with their terminator.
InputLists == SortedListsOf(BareLines, MaxLines) \cup SortedListsOf(TerminatedLines, MaxLines)

OptionUniverse ==
    {o \in {IndexerOptions(DEFAULT_MIN_FILE_COUNT, DEFAULT_MAX_FILE_COUNT, w)
            : w \in {<<>>} \cup {<<n>> : n \in 1..MaxWanted}} : is_valid(o)}

Strip(line) == SubSeq(line, 1, BareLen(line))

\* What a has call may be asked after a build: "", the lines of the build and
\* the one-character lines, each bare and with a terminator.
QueriesFor(input) ==
    LET bare == {Strip(input[i]) : i \in 1..Len(input)} \cup {<<c>> : c \in Alphabet}
    IN  {<<>>} \cup bare \cup {l \o <<NL>> : l \in bare}

NoIndex == [origin |-> "none", last_line |-> <<>>, batch_start_lines |-> <<>>,
            paths |-> <<>>]

\* BatchKeyData + FileLineBatchedStorage inside a LineBatchedIndex.
LineBatchedIndex(origin, last, starts, paths) ==
    [origin |-> origin, last_line |-> last, batch_start_lines |-> starts, paths |-> paths]

index_data_path == join_paths(ResourceDir, IndexName)
storage_data_path == join_paths(ResourceDir, StorageName)

batch_file_path(number, file_count) ==
    join_paths(ResourceDir, convert_file_number(number, file_count) \o DatSuffix)

\* What the file system holds before the call: nothing, or the resource
\* directory of an earlier build of two batches with a subdirectory in it.
OldDir == join_paths(ResourceDir, <<111, 108, 100>>)     \* "res/old"
PriorStates ==
    {[disk |-> <<>>, dirs |-> {}],
     [disk |-> [p \in {index_data_path, storage_data_path,
                       batch_file_path(0, 2), batch_file_path(1, 2),
                       join_paths(OldDir, IndexName)} |-> <<97, NL>>],
      dirs |-> {ResourceDir, OldDir}]}

Init ==
    /\ options \in OptionUniverse
    /\ lines = <<>>
    /\ pc = "idle"
    /\ \E prior \in PriorStates : disk = prior.disk /\ dirs = prior.dirs
    /\ line_count = 0
    /\ total_size = 0
    /\ optimal_file_number = 0
    /\ processed_size = 0
    /\ last_line = <<>>
    /\ start_lines = <<>>
    /\ line_generator = 0
    /\ file_paths = <<>>
    /\ file_number = 0
    /\ progress = FreshProgress
    /\ merging = NotMerging
    /\ result = [op \in Operations |-> "none"]
    /\ index = NoIndex
    /\ has_line = <<>>
    /\ has_result = "none"
    /\ args = <<>>
    /\ returned = NoCall

\* ------------------------------------------------------- Indexer.__index
\* __yield_lines: the terminator is added where the line does not end with one.
yield_line(line) == IF line[Len(line)] # NL THEN line \o <<NL>> ELSE line

\* What line_generator_creator() yields, in order.
Stream(input) == [i \in 1..Len(input) |-> yield_line(input[i])]

RECURSIVE SumSizes(_)
SumSizes(strs) ==
    IF strs = <<>> THEN 0 ELSE size_of_line(Head(strs)) + SumSizes(Tail(strs))

\* Variant: the budget of batch i is that of the batch before it.
current_limit_of_previous(total, number, count) == (total * number) \div count

\* Variant: the budget rounded up instead of down.
current_limit_rounded_up(total, number, file_count) ==
    (total * (number + 1) + file_count - 1) \div file_count

\* Variant: every batch is given the whole stream as its budget.
current_limit_whole_stream(total, number, file_count) == total

current_limit(total, number, file_count) == (total * (number + 1)) \div file_count

\* Variant: the carried line is not written on opening a batch.
carried_write_nothing(carried) == <<>>

\* data_file.write(last_line) on opening a batch: the carried line ("" for batch 0).
carried_write(carried) == carried

\* Variant: the line is written before the limit is looked at.
taken_write_before_check(line, size, limit) == line

\* What the open batch receives of the line just taken: nothing when the line
\* pushes processed_size over the limit (break), the line otherwise.
taken_write(line, size, limit) == IF size > limit THEN <<>> ELSE line

\* index_lines up to the first pass of the batch loop: empty the resource
\* directory, reject an empty list, count lines and bytes, choose the batch
\* count, take the first separator from a fresh generator.
IndexLines(input) ==
    /\ pc = "idle"
    /\ lines' = input
    /\ dirs' = clear_subdirs(make_dir(dirs, ResourceDir), ResourceDir)
    /\ disk' = clear_dir(disk, ResourceDir)
    /\ IF Len(input) = 0
       THEN /\ result' = [result EXCEPT !["index_lines"] = "ValueError"]
            /\ pc' = "done"
            /\ UNCHANGED packer
       ELSE /\ line_count' = Len(Stream(input))
            /\ total_size' = SumSizes(Stream(input))
            /\ optimal_file_number' =
                   find_optimal_file_number(options, Len(Stream(input)),
                                            SumSizes(Stream(input)))
            /\ processed_size' = 0
            /\ last_line' = <<>>
            /\ start_lines' = <<Stream(input)[1]>>
            /\ line_generator' = 0
            /\ file_paths' = <<>>
            /\ file_number' = 0
            /\ progress' = report_start(progress)
            /\ pc' = "for"
            /\ UNCHANGED result
    /\ UNCHANGED <<options, index, has_line, has_result>>
    /\ UNCHANGED call
    /\ UNCHANGED merging

\* yield_from_files: the lines of the files one after the other.
RECURSIVE yield_from_files(_, _)
yield_from_files(d, paths) ==
    IF paths = <<>> THEN <<>>
    ELSE read_lines(d, Head(paths)) \o yield_from_files(d, Tail(paths))

\* index up to the first pass of the batch loop: reject an empty list of
\* paths, empty the resource directory, then __index: report the start, count
\* the lines of the files (a file that is not there raises when its turn
\* comes), reject a stream without lines, choose the batch count, take the
\* first separator.  The files here end every line with the terminator, so
\* the stream is the lines as they stand.
Index(paths) ==
    /\ pc = "idle"
    /\ args' = paths
    /\ IF Len(paths) = 0
       THEN /\ result' = [result EXCEPT !["index"] = "ValueError"]
            /\ pc' = "done"
            /\ UNCHANGED <<lines, disk, dirs, packer>>
       ELSE LET emptied == clear_dir(disk, ResourceDir)
                missing == \E i \in 1..Len(paths) : paths[i] \notin DOMAIN emptied
                yielded == IF missing THEN <<>> ELSE yield_from_files(emptied, paths)
            IN  /\ dirs' = clear_subdirs(make_dir(dirs, ResourceDir), ResourceDir)
                /\ disk' = emptied
                /\ progress' = report_start(progress)
                /\ lines' = yielded
                /\ IF missing \/ yielded = <<>>
                   THEN /\ result' = [result EXCEPT !["index"] =
                                         IF missing THEN "FileNotFoundError"
                                         ELSE "ValueError"]
                        /\ pc' = "done"
                        /\ UNCHANGED <<line_count, total_size, optimal_file_number,
                                       processed_size, last_line, start_lines,
                                       line_generator, file_paths, file_number>>
                   ELSE /\ line_count' = Len(yielded)
                        /\ total_size' = SumSizes(yielded)
                        /\ optimal_file_number' =
                               find_optimal_file_number(options, Len(yielded),
                                                        SumSizes(yielded))
                        /\ processed_size' = 0
                        /\ last_line' = <<>>
                        /\ start_lines' = <<yielded[1]>>
                        /\ line_generator' = 0
                        /\ file_paths' = <<>>
                        /\ file_number' = 0
                        /\ result' = [result EXCEPT !["index"] = "running"]
                        /\ pc' = "for"
    /\ UNCHANGED <<options, index, has_line, has_result, returned>>
    /\ UNCHANGED merging

\* for file_number in range(optimal_file_number): open the batch file, record
\* the carried line as its separator (not for batch 0) and write it.  When the
\* range is used up the loop ends and RuntimeError is raised.
ForBatch ==
    /\ pc = "for"
    /\ IF file_number < optimal_file_number
       THEN /\ LET file_path == batch_file_path(file_number, optimal_file_number)
               IN  /\ file_paths' = Append(file_paths, file_path)
                   /\ disk' = PutFile(disk, file_path, carried_write(last_line), FALSE)
            /\ start_lines' = IF file_number # 0 THEN Append(start_lines, last_line)
                              ELSE start_lines
            /\ pc' = "while"
            /\ UNCHANGED result
       ELSE /\ result' = [result EXCEPT ![Building] = "RuntimeError"]
            /\ pc' = "done"
            /\ UNCHANGED <<file_paths, disk, start_lines>>
    /\ UNCHANGED <<options, lines, dirs, line_count, total_size, optimal_file_number,
                   processed_size, last_line, line_generator, file_number, progress,
                   index, has_line, has_result>>
    /\ UNCHANGED call
    /\ UNCHANGED merging

\* next(line_generator) yields a line: count it, then either close the batch
\* (the line is carried to the next one) or write it.
TakeLine ==
    /\ pc = "while"
    /\ line_generator < Len(lines)
    /\ LET line == Stream(lines)[line_generator + 1]
           size == processed_size + size_of_line(line)
           limit == current_limit(total_size, file_number, optimal_file_number)
       IN  /\ last_line' = line
           /\ line_generator' = line_generator + 1
           /\ processed_size' = size
           /\ disk' = PutFile(disk, file_paths[Len(file_paths)],
                              taken_write(line, size, limit), TRUE)
           /\ IF size > limit
              THEN /\ file_number' = file_number + 1
                   /\ progress' = report(progress, file_number + 1, optimal_file_number)
                   /\ pc' = "for"
              ELSE UNCHANGED <<file_number, progress, pc>>
    /\ UNCHANGED <<options, lines, dirs, line_count, total_size, optimal_file_number,
                   start_lines, file_paths, result, index, has_line, has_result>>
    /\ UNCHANGED call
    /\ UNCHANGED merging

\* __write_index_data then __write_storage_data; the first write that raises
\* ends the sequence.
write_index_data(d, last, starts) ==
    LET w1 == write(PyStr(index_data_path), PyStr(last), FALSE, d)
        w2 == write(PyStr(index_data_path), PyStr(Decimal(Len(starts)) \o <<NL>>),
                    TRUE, w1.disk)
        w3 == write(PyStr(index_data_path), PyList(starts), TRUE, w2.disk)
    IN  IF w1.err # "ok" THEN w1 ELSE IF w2.err # "ok" THEN w2 ELSE w3

write_storage_data(d, paths) ==
    write(PyStr(storage_data_path), PyList([i \in 1..Len(paths) |-> paths[i] \o <<NL>>]),
          FALSE, d)

write_sidecars(d, last, starts, paths) ==
    LET wi == write_index_data(d, last, starts)
    IN  IF wi.err # "ok" THEN wi ELSE write_storage_data(wi.disk, paths)

\* next(line_generator) raises StopIteration: write the sidecars and return
\* the index, unless a write raises.
StopIteration ==
    /\ pc = "while"
    /\ line_generator = Len(lines)
    /\ LET w == write_sidecars(disk, last_line, start_lines, file_paths)
       IN  /\ disk' = w.disk
           /\ IF w.err = "ok"
              THEN /\ result' = [result EXCEPT ![Building] = "returned"]
                   /\ index' = LineBatchedIndex(Building, last_line, start_lines,
                                                file_paths)
                   /\ progress' = report_done(progress)
              ELSE /\ result' = [result EXCEPT ![Building] = w.err]
                   /\ index' = index
                   /\ progress' = progress
    /\ pc' = "done"
    /\ UNCHANGED <<options, lines, dirs, line_count, total_size, optimal_file_number,
                   processed_size, last_line, start_lines, line_generator, file_paths,
                   file_number, has_line, has_result>>
    /\ UNCHANGED call
    /\ UNCHANGED merging

\* -------------------------------------------- build_index_for_data / load
\* Variant: the last line is taken from the first file.
build_index_for_data_first_file(d, data_file_paths) ==
    IF Len(data_file_paths) = 0 THEN [err |-> "ValueError", index |-> NoIndex]
    ELSE IF \E i \in 1..Len(data_file_paths) : readline(d[data_file_paths[i]]) = <<>>
         THEN [err |-> "ValueError", index |-> NoIndex]
    ELSE LET last_lines == read_lines(d, data_file_paths[1])
         IN  [err |-> "ok",
              index |-> LineBatchedIndex(
                  "build_index_for_data",
                  last_lines[Len(last_lines)],
                  [i \in 1..Len(data_file_paths) |-> readline(d[data_file_paths[i]])],
                  data_file_paths)]

\* Indexer.build_index_for_data: the first line of every file, the last line
\* of the final file; nothing is written.
build_index_for_data(d, data_file_paths) ==
    IF Len(data_file_paths) = 0 THEN [err |-> "ValueError", index |-> NoIndex]
    ELSE IF \E i \in 1..Len(data_file_paths) :
                /\ data_file_paths[i] \notin DOMAIN d
                /\ \A j \in 1..(i - 1) : readline(d[data_file_paths[j]]) # <<>>
         THEN [err |-> "FileNotFoundError", index |-> NoIndex]
    ELSE IF \E i \in 1..Len(data_file_paths) : readline(d[data_file_paths[i]]) = <<>>
         THEN [err |-> "ValueError", index |-> NoIndex]
    ELSE LET last_lines == read_lines(d, data_file_paths[Len(data_file_paths)])
         IN  [err |-> "ok",
              index |-> LineBatchedIndex(
                  "build_index_for_data",
                  last_lines[Len(last_lines)],
                  [i \in 1..Len(data_file_paths) |-> readline(d[data_file_paths[i]])],
                  data_file_paths)]

\* __read_index_data: first line, skip the count, the rest are the separators.
read_index_data(d) ==
    LET content == d[index_data_path]
    IN  [last_line |-> readline(content),
         batch_start_lines |-> readlines(AfterFirstLine(AfterFirstLine(content)))]

\* __read_storage_data: every line without its last character.
read_storage_data(d) ==
    LET stored == read_lines(d, storage_data_path)
    IN  [i \in 1..Len(stored) |-> SubSeq(stored[i], 1, Len(stored[i]) - 1)]

load_index(d) ==
    IF index_data_path \notin DOMAIN d \/ storage_data_path \notin DOMAIN d
    THEN [err |-> "FileNotFoundError", index |-> NoIndex]
    ELSE [err |-> "ok",
          index |-> LineBatchedIndex("load_index", read_index_data(d).last_line,
                                     read_index_data(d).batch_start_lines,
                                     read_storage_data(d))]

\* The caller builds an index over the batch files the build left on disk.
BuildIndexForData ==
    /\ pc = "done"
    /\ result["build_index_for_data"] = "none"
    /\ LET b == build_index_for_data(disk, file_paths)
       IN  /\ result' = [result EXCEPT !["build_index_for_data"] =
                             IF b.err = "ok" THEN "returned" ELSE b.err]
           /\ index' = IF b.err = "ok" THEN b.index ELSE index
    /\ UNCHANGED <<options, lines, pc, disk, dirs, packer, has_line, has_result>>
    /\ UNCHANGED call
    /\ UNCHANGED merging

LoadIndex ==
    /\ pc = "done"
    /\ result["load_index"] = "none"
    /\ LET l == load_index(disk)
       IN  /\ result' = [result EXCEPT !["load_index"] =
                             IF l.err = "ok" THEN "returned" ELSE l.err]
           /\ index' = IF l.err = "ok" THEN l.index ELSE index
    /\ UNCHANGED <<options, lines, pc, disk, dirs, packer, has_line, has_result>>
    /\ UNCHANGED call
    /\ UNCHANGED merging

\* ------------------------------------------------- LineBatchedIndex.has
\* Variant: the terminator is added only where the argument lacks one.
normalize_if_missing(line) ==
    IF line # <<>> /\ line[Len(line)] = NL THEN line ELSE line \o <<NL>>

\* line += "\n"
normalize(line) == line \o <<NL>>

\* FileLineBatch.has: binary search over all lines of the batch file.
batch_has(d, path, line) == bs_has(line, read_lines(d, path))

has(idx, d, query) ==
    LET line == normalize(query)
    IN  IF Len(idx.batch_start_lines) = 0 THEN "IndexError"
        ELSE IF \/ StrLess(line, idx.batch_start_lines[1])
                \/ StrLess(idx.last_line, line)
             THEN "False"
        ELSE LET batch_number == bs_lower_index(line, idx.batch_start_lines)
             IN  IF batch_number = None THEN "False"
                 ELSE IF batch_number >= Len(idx.paths) THEN "IndexError"
                 ELSE IF idx.paths[batch_number + 1] \notin DOMAIN d
                      THEN "FileNotFoundError"
                 ELSE IF batch_has(d, idx.paths[batch_number + 1], line)
                      THEN "True" ELSE "False"

\* The batch files has opens (FileLineBatch.__load_lines), in order.
batches_read(idx, d, query) ==
    LET line == normalize(query)
    IN  IF Len(idx.batch_start_lines) = 0 THEN <<>>
        ELSE IF \/ StrLess(line, idx.batch_start_lines[1])
                \/ StrLess(idx.last_line, line)
             THEN <<>>
        ELSE LET batch_number == bs_lower_index(line, idx.batch_start_lines)
             IN  IF batch_number = None \/ batch_number >= Len(idx.paths) THEN <<>>
                 ELSE <<idx.paths[batch_number + 1]>>

\* The caller asks the index it holds one question.
Has ==
    /\ index.origin # "none"
    /\ has_result = "none"
    /\ \E query \in QueriesFor(lines) :
          /\ has_line' = query
          /\ has_result' = has(index, disk, query)
    /\ UNCHANGED <<options, lines, pc, disk, dirs, packer, result, index>>
    /\ UNCHANGED call
    /\ UNCHANGED merging

\* ----------------------------------------------------------- specification
Next ==
    \/ \E input \in InputLists : IndexLines(input)
    \/ ForBatch
    \/ TakeLine
    \/ StopIteration
    \/ BuildIndexForData
    \/ LoadIndex

Spec == Init /\ [][Next]_vars

\* Builds, then queries on the index that build_index_for_data makes of
\* their batch files.
NextQuery ==
    \/ \E input \in InputLists : IndexLines(input)
    \/ ForBatch
    \/ TakeLine
    \/ StopIteration
    \/ BuildIndexForData
    \/ Has

SpecQuery == Init /\ [][NextQuery]_vars

\* ------------------------------------------- index and index_lines of files
\* The files a caller may hand to index: two in a directory of their own and
\* the first batch file of the earlier build, where there was one.
IndexedPaths(d) ==
    {join_paths(<<105, 110>>, Decimal(0)), join_paths(<<105, 110>>, Decimal(1))}
    \cup ({batch_file_path(0, 2)} \cap DOMAIN d)

\* Files of at most n lines of one character, in ascending order.
RECURSIVE IndexedFiles(_)
IndexedFiles(n) ==
    IF n = 0 THEN {<<>>}
    ELSE LET shorter == IndexedFiles(n - 1)
             longer == {Append(f, <<c, NL>>) : f \in {g \in shorter : Len(g) = n - 1},
                                              c \in Alphabet}
         IN  shorter \cup {f \in longer : n > 1 => StrLess(f[n - 1], f[n])}

\* Lists of one or two different paths, and the empty list.
PathLists(d) ==
    {<<>>} \cup {<<p>> : p \in IndexedPaths(d)}
           \cup {pair \in {<<p, q>> : p \in IndexedPaths(d), q \in IndexedPaths(d)} :
                     pair[1] # pair[2]}

\* What index_lines is given here: no line or one.
FewLines == {<<>>} \cup {<<<<c>>>> : c \in Alphabet}

InitIndex ==
    /\ options \in OptionUniverse
    /\ \E prior \in PriorStates :
       \E files \in [IndexedPaths(prior.disk) -> IndexedFiles(MaxIndexedLines)] :
          /\ disk = [p \in (DOMAIN prior.disk) \cup IndexedPaths(prior.disk) |->
                        IF p \in IndexedPaths(prior.disk) THEN Concat(files[p])
                        ELSE prior.disk[p]]
          /\ dirs = prior.dirs \cup {<<105, 110>>}
    /\ lines = <<>>
    /\ pc = "idle"
    /\ line_count = 0
    /\ total_size = 0
    /\ optimal_file_number = 0
    /\ processed_size = 0
    /\ last_line = <<>>
    /\ start_lines = <<>>
    /\ line_generator = 0
    /\ file_paths = <<>>
    /\ file_number = 0
    /\ progress = FreshProgress
    /\ merging = NotMerging
    /\ result = [op \in Operations |-> "none"]
    /\ index = NoIndex
    /\ has_line = <<>>
    /\ has_result = "none"
    /\ args = <<>>
    /\ returned = NoCall

NextIndex ==
    \/ \E paths \in PathLists(disk) : Index(paths)
    \/ \E input \in FewLines : IndexLines(input)
    \/ ForBatch
    \/ TakeLine
    \/ StopIteration

SpecIndex == InitIndex /\ [][NextIndex]_vars

\* ------------------------------------------- IndexerOptions on their own
\* The file counts a caller may pass: small ones and those around the limits.
CountValues ==
    (0..MaxFileCount) \cup {RECOMMENDED_OS_FILE_LIMIT, RECOMMENDED_OS_FILE_LIMIT + 1}

OptionArgs ==
    [min_file_count : CountValues, max_file_count : CountValues,
     wanted_file_count : {<<>>} \cup {<<n>> : n \in CountValues}]

NoOptions == IndexerOptions(0, 0, <<>>)

InitOptions ==
    /\ args \in OptionArgs
    /\ line_count \in 1..MaxLineCount
    /\ returned = NoCall
    /\ options = NoOptions
    /\ lines = <<>>
    /\ pc = "idle"
    /\ disk = <<>>
    /\ dirs = {}
    /\ total_size = 0
    /\ optimal_file_number = 0
    /\ processed_size = 0
    /\ last_line = <<>>
    /\ start_lines = <<>>
    /\ line_generator = 0
    /\ file_paths = <<>>
    /\ file_number = 0
    /\ progress = FreshProgress
    /\ merging = NotMerging
    /\ result = [op \in Operations |-> "none"]
    /\ index = NoIndex
    /\ has_line = <<>>
    /\ has_result = "none"

\* IndexerOptions(min_file_count, max_file_count, wanted_file_count): the
\* fields are assigned, then __raise_if_is_not_valid decides.
NewIndexerOptions ==
    /\ returned.outcome = "none"
    /\ LET made == IndexerOptions(args.min_file_count, args.max_file_count,
                                  args.wanted_file_count)
       IN  IF is_valid(made)
           THEN /\ options' = made
                /\ returned' = [outcome |-> "returned", value |-> made]
           ELSE /\ options' = options
                /\ returned' = [outcome |-> "ValueError", value |-> <<>>]
    /\ UNCHANGED <<lines, pc, disk, dirs, packer, result, index, has_line, has_result,
                   args>>
    /\ UNCHANGED merging

\* Indexer.__find_optimal_file_number on the options made, for a stream of
\* line_count lines.
FindOptimalFileNumber ==
    /\ returned.outcome = "returned"
    /\ optimal_file_number = 0
    /\ optimal_file_number' = find_optimal_file_number(options, line_count, total_size)
    /\ UNCHANGED <<options, lines, pc, disk, dirs, line_count, total_size,
                   processed_size, last_line, start_lines, line_generator, file_paths,
                   file_number, progress, result, index, has_line, has_result, args,
                   returned>>
    /\ UNCHANGED merging

NextOptions ==
    \/ NewIndexerOptions
    \/ FindOptimalFileNumber

SpecOptions == InitOptions /\ [][NextOptions]_vars

\* ------------------------------------------------------ merge_sorted_files
InputDir == <<105, 110>>                      \* "in"
OutputDir == <<111, 117, 116>>                \* "out"
BatchSuffix == <<46, 98, 97, 116, 99, 104>>   \* ".batch"

\* os.path.split(path)[:-1] joined: what stands before the last separator.
get_parent_path(path) ==
    IF \E i \in 1..Len(path) : path[i] = Slash
    THEN SubSeq(path, 1, (CHOOSE i \in 1..Len(path) :
                            path[i] = Slash /\ \A j \in (i + 1)..Len(path) : path[j] # Slash) - 1)
    ELSE <<>>

RECURSIVE count_lines(_, _)
count_lines(d, paths) ==
    IF paths = <<>> THEN 0
    ELSE Len(read_lines(d, Head(paths))) + count_lines(d, Tail(paths))

merge_output_path(output_dir, number, count) ==
    join_paths(output_dir, convert_file_number(number, count) \o BatchSuffix)

\* Variant: the new pair is put first whatever its value.
insert_at_front(pairs, item) == <<item>> \o pairs

\* values_with_generators.insert at the first index whose value is smaller.
RECURSIVE insert_before_smaller(_, _)
insert_before_smaller(pairs, item) ==
    IF pairs = <<>> \/ StrLess(Head(pairs).value, item.value)
    THEN <<item>> \o pairs
    ELSE <<Head(pairs)>> \o insert_before_smaller(Tail(pairs), item)

\* list.sort(key = value, reverse = True): descending, equal values keep
\* their order.
RECURSIVE sort_reverse(_)
sort_reverse(pairs) ==
    IF pairs = <<>> THEN <<>>
    ELSE insert_before_smaller(sort_reverse(SubSeq(pairs, 1, Len(pairs) - 1)),
                               pairs[Len(pairs)])

\* The first value of every generator that has one, in input order.
RECURSIVE first_values(_, _)
first_values(files, g) ==
    IF g > Len(files) THEN <<>>
    ELSE (IF files[g] = <<>> THEN <<>> ELSE <<[value |-> files[g][1], gen |-> g]>>)
         \o first_values(files, g + 1)

\* next(generator) until the value differs from last_value: the position of
\* that value in the file, 0 when StopIteration comes first.
next_distinct(file_lines, position, last_value) ==
    IF \E q \in (position + 1)..Len(file_lines) : file_lines[q] # last_value
    THEN CHOOSE q \in (position + 1)..Len(file_lines) :
            /\ file_lines[q] # last_value
            /\ \A r \in (position + 1)..(q - 1) : file_lines[r] = last_value
    ELSE 0

\* Variant: the first output file may take every line.
merge_current_limit_whole(total, number, count) == total

\* Variant: the limit rounded up instead of down.
merge_current_limit_rounded_up(total, number, count) ==
    (total * (number + 1) + count - 1) \div count

\* current_limit = total_line_count * (file_number + 1) // generator_count
merge_current_limit(total, number, count) == (total * (number + 1)) \div count

\* while current_line_index < current_limit, for the output file now open.
\* m: values_with_generators, position of every generator, current_line_index,
\* last_value ("" for None), the output files so far, and how the call stands.
RECURSIVE merge_while(_, _, _)
merge_while(m, limit, files) ==
    IF m.current_line_index >= limit THEN m
    ELSE IF m.values_with_generators = <<>> THEN [m EXCEPT !.outcome = "IndexError"]
    ELSE LET top == m.values_with_generators[Len(m.values_with_generators)]
             rest == SubSeq(m.values_with_generators, 1, Len(m.values_with_generators) - 1)
             fresh == top.value # m.last_value
             written == [m EXCEPT
                 !.last_value = top.value,
                 !.output[Len(m.output)] = IF fresh THEN @ \o top.value ELSE @,
                 !.current_line_index = IF fresh THEN @ + 1 ELSE @]
             q == next_distinct(files[top.gen], m.position[top.gen], top.value)
         IN  IF q = 0
             THEN IF rest = <<>>
                  THEN [written EXCEPT !.values_with_generators = rest,
                                       !.outcome = "returned"]
                  ELSE merge_while([written EXCEPT !.values_with_generators = rest],
                                   limit, files)
             ELSE merge_while(
                      [written EXCEPT
                          !.values_with_generators =
                              insert_before_smaller(rest, [value |-> files[top.gen][q],
                                                           gen |-> top.gen]),
                          !.position[top.gen] = q],
                      limit, files)

\* for file_number in range(generator_count)
RECURSIVE merge_for(_, _, _, _)
merge_for(m, number, total_line_count, files) ==
    IF number >= Len(files) THEN [m EXCEPT !.outcome = "returned"]
    ELSE LET opened == [m EXCEPT !.output = Append(@, <<>>)]
             closed == merge_while(opened,
                                   merge_current_limit(total_line_count, number, Len(files)),
                                   files)
         IN  IF closed.outcome # "running" THEN closed
             ELSE merge_for(closed, number + 1, total_line_count, files)

\* merge_sorted_files(input_paths, output_dir): how it ends, the paths it
\* returns and the disk it leaves.
merge_sorted_files(d, input_paths, output_dir) ==
    IF \E i \in 1..Len(input_paths) : get_parent_path(input_paths[i]) = output_dir
    THEN [outcome |-> "ValueError", value |-> <<>>, disk |-> d]
    ELSE LET files == [g \in 1..Len(input_paths) |-> read_lines(d, input_paths[g])]
             start == [values_with_generators |-> sort_reverse(first_values(files, 1)),
                       position |-> [g \in 1..Len(files) |-> 1],
                       current_line_index |-> 0,
                       last_value |-> <<>>,
                       output |-> <<>>,
                       outcome |-> "running"]
             end == merge_for(start, 0, count_lines(d, input_paths), files)
             paths == [n \in 1..Len(end.output) |->
                          merge_output_path(output_dir, n - 1, Len(input_paths))]
         IN  [outcome |-> end.outcome,
              value |-> IF end.outcome = "returned" THEN paths ELSE <<>>,
              disk |-> [p \in (DOMAIN d) \cup Range(paths) |->
                           IF \E n \in 1..Len(paths) : paths[n] = p
                           THEN end.output[CHOOSE n \in 1..Len(paths) : paths[n] = p]
                           ELSE d[p]]]

\* The lines of the files to merge: one character and the terminator.
MergeLines == {<<c, NL>> : c \in Alphabet}

\* The files sorted ascending, duplicates allowed, of at most n lines.
RECURSIVE SortedFiles(_)
SortedFiles(n) ==
    IF n = 0 THEN {<<>>}
    ELSE LET shorter == SortedFiles(n - 1)
             longer == {Append(f, l) : f \in {g \in shorter : Len(g) = n - 1},
                                       l \in MergeLines}
         IN  shorter \cup {f \in longer : n > 1 => ~StrLess(f[n], f[n - 1])}

merge_input_path(g) == join_paths(InputDir, Decimal(g))

\* The input files exist, zero to MaxMergeFiles of them, each sorted.
InitMerge ==
    /\ \E k \in 0..MaxMergeFiles : \E files \in [1..k -> SortedFiles(MaxFileLines)] :
          /\ args = [g \in 1..k |-> merge_input_path(g - 1)]
          /\ disk = [q \in {merge_input_path(g - 1) : g \in 1..k} |->
                        Concat(files[CHOOSE g \in 1..k : merge_input_path(g - 1) = q])]
    /\ dirs = {InputDir}
    /\ returned = NoCall
    /\ options = NoOptions
    /\ lines = <<>>
    /\ pc = "idle"
    /\ line_count = 0
    /\ total_size = 0
    /\ optimal_file_number = 0
    /\ processed_size = 0
    /\ last_line = <<>>
    /\ start_lines = <<>>
    /\ line_generator = 0
    /\ file_paths = <<>>
    /\ file_number = 0
    /\ progress = FreshProgress
    /\ merging = NotMerging
    /\ result = [op \in Operations |-> "none"]
    /\ index = NoIndex
    /\ has_line = <<>>
    /\ has_result = "none"

MergeSortedFiles ==
    /\ returned.outcome = "none"
    /\ LET merged == merge_sorted_files(disk, args, OutputDir)
       IN  /\ returned' = [outcome |-> merged.outcome, value |-> merged.value]
           /\ disk' = merged.disk
           /\ dirs' = IF merged.outcome = "ValueError" THEN dirs
                      ELSE make_dir(dirs, OutputDir)
    /\ UNCHANGED <<options, lines, pc, packer, result, index, has_line, has_result, args>>
    /\ UNCHANGED merging

NextMerge == MergeSortedFiles

SpecMerge == InitMerge /\ [][NextMerge]_vars

\* No build, query or option call is under way.
OnlyCalls ==
    /\ options = NoOptions
    /\ lines = <<>>
    /\ pc = "idle"
    /\ line_count = 0
    /\ total_size = 0
    /\ optimal_file_number = 0
    /\ processed_size = 0
    /\ last_line = <<>>
    /\ start_lines = <<>>
    /\ line_generator = 0
    /\ file_paths = <<>>
    /\ file_number = 0
    /\ progress = FreshProgress
    /\ merging = NotMerging
    /\ result = [op \in Operations |-> "none"]
    /\ index = NoIndex
    /\ has_line = <<>>
    /\ has_result = "none"

\* ------------------------------------ merge_sorted_files, pass by pass
\* The numbers of input files followed pass by pass: none, one, two.
StepFileCounts == {0, 1, 2}

InitMergeSteps ==
    /\ \E k \in StepFileCounts : \E files \in [1..k -> SortedFiles(MaxFileLines)] :
          /\ args = [g \in 1..k |-> merge_input_path(g - 1)]
          /\ disk = [q \in {merge_input_path(g - 1) : g \in 1..k} |->
                        Concat(files[CHOOSE g \in 1..k : merge_input_path(g - 1) = q])]
    /\ dirs = {InputDir}
    /\ returned = NoCall
    /\ OnlyCalls

\* Up to the loop over the output files: the check of the directories,
\* make_dir, the count of the lines, the first value of every generator and
\* the sort.
MergeCall ==
    /\ merging.pc = "idle"
    /\ returned.outcome = "none"
    /\ IF \E i \in 1..Len(args) : get_parent_path(args[i]) = OutputDir
       THEN /\ returned' = [outcome |-> "ValueError", value |-> <<>>]
            /\ merging' = [merging EXCEPT !.pc = "done"]
            /\ UNCHANGED dirs
       ELSE \E files \in {[g \in 1..Len(args) |-> read_lines(disk, args[g])]} :
                /\ dirs' = make_dir(dirs, OutputDir)
                /\ merging' =
                      [pc |-> "for",
                       values_with_generators |-> sort_reverse(first_values(files, 1)),
                       position |-> [g \in 1..Len(files) |-> 1],
                       total_line_count |-> count_lines(disk, args),
                       generator_count |-> Len(files),
                       current_line_index |-> 0,
                       last_value |-> <<>>,
                       file_number |-> 0,
                       current_limit |-> 0,
                       output_paths |-> <<>>,
                       exhausted |-> {g \in 1..Len(files) : files[g] = <<>>}]
                /\ UNCHANGED returned
    /\ UNCHANGED <<options, lines, pc, disk, packer, result, index, has_line,
                   has_result, args>>

\* for file_number in range(generator_count): the limit, the path and the
\* open of the output file; past the range, progress.report_done and return.
MergeForFile ==
    /\ merging.pc = "for"
    /\ IF merging.file_number < merging.generator_count
       THEN LET output_path == merge_output_path(OutputDir, merging.file_number,
                                                 merging.generator_count)
            IN  /\ merging' =
                      [merging EXCEPT
                          !.current_limit =
                              merge_current_limit(merging.total_line_count,
                                                  merging.file_number,
                                                  merging.generator_count),
                          !.output_paths = Append(@, output_path),
                          !.pc = "while"]
                /\ disk' = PutFile(disk, output_path, <<>>, FALSE)
                /\ UNCHANGED returned
       ELSE /\ returned' = [outcome |-> "returned", value |-> merging.output_paths]
            /\ merging' = [merging EXCEPT !.pc = "done"]
            /\ UNCHANGED disk
    /\ UNCHANGED <<options, lines, pc, dirs, packer, result, index, has_line,
                   has_result, args>>

\* One test of while current_line_index < current_limit and, where it holds,
\* one pass of the body: the value at the end of the array is written unless
\* it repeats the last one; its generator gives its next different value,
\* which is inserted before the first smaller one, or raises StopIteration
\* and is dropped, and the call returns when none is left.
MergeWhile ==
    /\ merging.pc = "while"
    /\ IF merging.current_line_index >= merging.current_limit
       THEN /\ merging' = [merging EXCEPT !.file_number = @ + 1, !.pc = "for"]
            /\ UNCHANGED <<disk, returned>>
       ELSE IF merging.values_with_generators = <<>>
       THEN /\ returned' = [outcome |-> "IndexError", value |-> <<>>]
            /\ merging' = [merging EXCEPT !.pc = "done"]
            /\ UNCHANGED disk
       ELSE LET top == merging.values_with_generators[Len(merging.values_with_generators)]
                rest == SubSeq(merging.values_with_generators, 1,
                               Len(merging.values_with_generators) - 1)
                fresh == top.value # merging.last_value
                file_lines == read_lines(disk, args[top.gen])
                q == next_distinct(file_lines, merging.position[top.gen], top.value)
                written == [merging EXCEPT
                               !.last_value = top.value,
                               !.current_line_index = IF fresh THEN @ + 1 ELSE @]
            IN  /\ disk' = IF fresh
                           THEN PutFile(disk,
                                        merging.output_paths[Len(merging.output_paths)],
                                        top.value, TRUE)
                           ELSE disk
                /\ IF q # 0
                   THEN /\ merging' =
                             [written EXCEPT
                                 !.values_with_generators =
                                     insert_before_smaller(
                                         rest, [value |-> file_lines[q], gen |-> top.gen]),
                                 !.position[top.gen] = q]
                        /\ UNCHANGED returned
                   ELSE /\ merging' =
                             [written EXCEPT
                                 !.values_with_generators = rest,
                                 !.exhausted = @ \cup {top.gen},
                                 !.pc = IF rest = <<>> THEN "done" ELSE "while"]
                        /\ returned' =
                             IF rest = <<>>
                             THEN [outcome |-> "returned", value |-> merging.output_paths]
                             ELSE returned
    /\ UNCHANGED <<options, lines, pc, dirs, packer, result, index, has_line,
                   has_result, args>>

NextMergeSteps == MergeCall \/ MergeForFile \/ MergeWhile

\* The call is the only thing that runs: a pass that can be made is made.
SpecMergeSteps == InitMergeSteps /\ [][NextMergeSteps]_vars /\ WF_vars(NextMergeSteps)

\* ------------------------------------- merge_sorted_files, any output_dir
\* The directories a caller may name for the output: another directory or
\* the one of the input files, each written with or without a separator at
\* its end.
OutputDirs == {OutputDir, OutputDir \o <<Slash>>, InputDir, InputDir \o <<Slash>>}

InitMergeInto ==
    /\ \E k \in 0..MaxMergeFiles : \E files \in [1..k -> SortedFiles(MaxFileLines)] :
       \E output_dir \in OutputDirs :
          /\ args = [input_paths |-> [g \in 1..k |-> merge_input_path(g - 1)],
                     output_dir |-> output_dir]
          /\ disk = [q \in {merge_input_path(g - 1) : g \in 1..k} |->
                        Concat(files[CHOOSE g \in 1..k : merge_input_path(g - 1) = q])]
    /\ dirs = {InputDir}
    /\ returned = NoCall
    /\ OnlyCalls

MergeSortedFilesInto ==
    /\ returned.outcome = "none"
    /\ LET merged == merge_sorted_files(disk, args.input_paths, args.output_dir)
       IN  /\ returned' = [outcome |-> merged.outcome, value |-> merged.value]
           /\ disk' = merged.disk
           /\ dirs' = IF merged.outcome = "ValueError" THEN dirs
                      ELSE make_dir(dirs, args.output_dir)
    /\ UNCHANGED <<options, lines, pc, packer, result, index, has_line, has_result, args>>
    /\ UNCHANGED merging

NextMergeInto == MergeSortedFilesInto

SpecMergeInto == InitMergeInto /\ [][NextMergeInto]_vars

\* ------------------------------ merge_sorted_files on its own output files
AgainDir == <<97, 103, 97, 105, 110>>         \* "again"

\* merge_sorted_files(output_paths, AgainDir), output_paths being what the
\* first call returned.
MergeSortedFilesAgain ==
    /\ returned.outcome = "returned"
    /\ AgainDir \notin dirs
    /\ LET merged == merge_sorted_files(disk, returned.value, AgainDir)
       IN  /\ args' = returned.value
           /\ returned' = [outcome |-> merged.outcome, value |-> merged.value]
           /\ disk' = merged.disk
           /\ dirs' = IF merged.outcome = "ValueError" THEN dirs
                      ELSE make_dir(dirs, AgainDir)
    /\ UNCHANGED <<options, lines, pc, packer, result, index, has_line, has_result>>
    /\ UNCHANGED merging

NextRemerge == MergeSortedFiles \/ MergeSortedFilesAgain

SpecRemerge == InitMerge /\ [][NextRemerge]_vars

\* ------------------------------------ bs_upper_index, FileLineBatch.upper
\* FileLineBatch.upper: the line at bs_upper_index, <<>> for None.
upper(d, path, line) ==
    LET batch_lines == read_lines(d, path)
        found == bs_upper_index(line, batch_lines)
    IN  IF found = None THEN <<>> ELSE <<batch_lines[found + 1]>>

\* The lines searched and searched for: one character or none, terminated.
SearchLines == {<<NL>>} \cup {<<c, NL>> : c \in Alphabet}

\* The lists of at most n lines in ascending order, equal neighbours allowed.
RECURSIVE SortedItems(_)
SortedItems(n) ==
    IF n = 0 THEN {<<>>}
    ELSE LET shorter == SortedItems(n - 1)
             longer == {Append(f, l) : f \in {g \in shorter : Len(g) = n - 1},
                                       l \in SearchLines}
         IN  shorter \cup {f \in longer : n > 1 => ~StrLess(f[n], f[n - 1])}

SearchCalls == {"bs_upper_index", "upper"}

\* A batch file holds the sorted lines; a call and its item are chosen.
InitSearch ==
    /\ \E sorted_items \in SortedItems(MaxItems) :
          /\ args \in [function : SearchCalls, item : SearchLines,
                       sorted_items : {sorted_items}]
          /\ disk = [q \in {batch_file_path(0, 1)} |-> Concat(sorted_items)]
    /\ dirs = {ResourceDir}
    /\ returned = NoCall
    /\ OnlyCalls

BsUpperIndex ==
    /\ returned.outcome = "none"
    /\ args.function = "bs_upper_index"
    /\ returned' = [outcome |-> "returned",
                    value |-> bs_upper_index(args.item, args.sorted_items)]
    /\ UNCHANGED <<options, lines, pc, disk, dirs, packer, result, index,
                   has_line, has_result, args>>
    /\ UNCHANGED merging

Upper ==
    /\ returned.outcome = "none"
    /\ args.function = "upper"
    /\ returned' = [outcome |-> "returned",
                    value |-> upper(disk, batch_file_path(0, 1), args.item)]
    /\ UNCHANGED <<options, lines, pc, disk, dirs, packer, result, index,
                   has_line, has_result, args>>
    /\ UNCHANGED merging

NextSearch == BsUpperIndex \/ Upper

SpecSearch == InitSearch /\ [][NextSearch]_vars

\* ------------------------------------------------ the name of a batch file
\* Batch counts on both sides of a new hexadecimal digit, and batch numbers
\* with one, two and three digits.
NamedCounts == {1, 2, 16, 17, 256, 257}
NamedNumbers == {0, 1, 10, 15, 16, 255, 256}

\* Batch file_number of optimal_file_number planned batches, the options
\* allowing max_file_count of them.
InitName ==
    /\ args \in {a \in [file_number : NamedNumbers, optimal_file_number : NamedCounts,
                         max_file_count : NamedCounts \cup {DEFAULT_MAX_FILE_COUNT}] :
                     a.file_number < a.optimal_file_number
                     /\ a.optimal_file_number <= a.max_file_count}
    /\ disk = <<>>
    /\ dirs = {}
    /\ returned = NoCall
    /\ OnlyCalls

\* file_name and file_path as __index makes them for the batch it opens.
BatchFilePath ==
    /\ returned.outcome = "none"
    /\ returned' = [outcome |-> "returned",
                    value |-> batch_file_path(args.file_number, args.optimal_file_number)]
    /\ UNCHANGED <<options, lines, pc, disk, dirs, packer, result, index,
                   has_line, has_result, args>>
    /\ UNCHANGED merging

NextName == BatchFilePath

SpecName == InitName /\ [][NextName]_vars

\* =============================================================== properties
StrictlyIncreasing(strs) == \A i \in 1..(Len(strs) - 1) : StrLess(strs[i], strs[i + 1])

\* index_lines has finished, whatever the outcome.
CallEnded == pc = "done" /\ result["index_lines"] # "none"

\* The packer consumed the whole stream (the StopIteration branch was taken):
\* batch files, start_lines and last_line are final.
Packed == pc = "done" /\ result["index_lines"] \in {"returned", "TypeError"}

\* The lines of batch i-1 as a reader of the file sees them.
BatchLines(i) == read_lines(disk, file_paths[i])

BatchCount == Len(file_paths)

\* Every line held by the batch files of the index the caller holds.
StoredLines == UNION {Range(read_lines(disk, index.paths[i])) : i \in 1..Len(index.paths)}

HasAnswers(idx, wanted) ==
    \A q \in BareLines : has(idx, disk, q) = (IF q \in wanted THEN "True" ELSE "False")

\* C1: for every non-empty set X of newline-free lines and valid options,
\* index_lines(sorted(X)) returns an index and load_index() loads one, and on
\* both has(l) is true for the lines of X and false for every other line.
C1_RoundTrip ==
    (CallEnded /\ lines # <<>> /\ Range(lines) \subseteq BareLines)
    => /\ result["index_lines"] = "returned"
       /\ index.origin = "index_lines"
       /\ HasAnswers(index, Range(lines))
       /\ load_index(disk).err = "ok"
       /\ HasAnswers(load_index(disk).index, Range(lines))

\* C2 as stated: has(x) and has(x + "\n") give the same result for every
\* index and every x without a newline.
C2_SameWithNewline ==
    (has_result # "none" /\ has_line \in BareLines \cup {<<>>})
    => has_result = has(index, disk, has_line \o <<NL>>)

\* C2 as amended: has appends a newline whether or not the argument ends
\* with one.  For x without a newline has(x) is true only if x + "\n" is a
\* stored line, and has(x + "\n") is false, so the two agree only when has(x)
\* is false.
C2_AlwaysAppends ==
    (has_result # "none" /\ has_line \in BareLines \cup {<<>>})
    => /\ has_result = "True" => (has_line \o <<NL>>) \in StoredLines
       /\ has(index, disk, has_line \o <<NL>>) = "False"
       /\ (has_result = has(index, disk, has_line \o <<NL>>)) <=> (has_result = "False")

C2_Witness ==
    /\ has_result = "True"
    /\ has_line \in BareLines
    /\ has(index, disk, has_line \o <<NL>>) = "False"

\* C3: asking for a stored line with its trailing newline attached (x + "\n"
\* where x is indexed) is answered false.
C3_StoredLineWithNewlineIsAbsent ==
    (has_result # "none" /\ has_line \in StoredLines) => has_result = "False"

C3_Witness ==
    /\ index.origin = "build_index_for_data"
    /\ has_line \in StoredLines
    /\ has_result = "False"

\* ------------------------------------------------------- the packed batches
RECURSIVE CumBytes(_)
CumBytes(i) == IF i = 0 THEN 0 ELSE CumBytes(i - 1) + size_of_line(disk[file_paths[i]])

RECURSIVE CumCount(_)
CumCount(i) == IF i = 0 THEN 0 ELSE CumCount(i - 1) + Len(BatchLines(i))

BatchBytes(i) == size_of_line(disk[file_paths[i]])

\* T, and the byte budget of batches 0..i-1: floor(T * i / N).
StreamBytes == SumSizes(Stream(lines))
Budget(i) == (StreamBytes * i) \div optimal_file_number

MaxLineBytes ==
    CHOOSE m \in {size_of_line(l) : l \in Range(Stream(lines))} :
        \A l \in Range(Stream(lines)) : size_of_line(l) <= m

Abs(x) == IF x < 0 THEN 0 - x ELSE x

\* C4: after a build of a sorted unique stream there is at least one
\* separator and no batch file is empty, batch 0 included.
C4_NoEmptyBatch ==
    (Packed /\ StrictlyIncreasing(Stream(lines)))
    => /\ Len(start_lines) >= 1
       /\ \A i \in 1..BatchCount : BatchLines(i) # <<>>

\* C5: after a build of a strictly increasing stream the separator list is
\* strictly increasing.
C5_SeparatorsIncrease ==
    (Packed /\ StrictlyIncreasing(Stream(lines))) => StrictlyIncreasing(start_lines)

\* C6: after a build every separator S[i] is the first line of batch file i
\* and last_line is the last line of the last batch file.
C6_DirectoryMatchesBatches ==
    Packed
    => /\ Len(start_lines) = BatchCount
       /\ \A i \in 1..BatchCount : start_lines[i] = readline(disk[file_paths[i]])
       /\ BatchLines(BatchCount) # <<>>
       /\ last_line = BatchLines(BatchCount)[Len(BatchLines(BatchCount))]

\* C7: after a build of a strictly increasing stream the lines of each batch
\* file are strictly increasing and every line of batch i is strictly less
\* than every line of batch i+1.
C7_BatchesIncrease ==
    (Packed /\ StrictlyIncreasing(Stream(lines)))
    => /\ \A i \in 1..BatchCount : StrictlyIncreasing(BatchLines(i))
       /\ \A i \in 1..(BatchCount - 1) :
             \A x \in Range(BatchLines(i)) : \A y \in Range(BatchLines(i + 1)) :
                 StrLess(x, y)

C7_Witness ==
    /\ Packed
    /\ StrictlyIncreasing(Stream(lines))
    /\ BatchCount >= 2
    /\ \E i \in 1..(BatchCount - 1) : Len(BatchLines(i)) >= 2 /\ BatchLines(i + 1) # <<>>

\* C8: the batch files, read in batch order, hold exactly the lines of the
\* input stream in stream order: none lost, none twice, none moved.
C8_BatchesAreTheStream ==
    Packed
    => /\ Concat([i \in 1..BatchCount |-> disk[file_paths[i]]]) = Concat(Stream(lines))
       /\ readlines(Concat([i \in 1..BatchCount |-> disk[file_paths[i]]])) = Stream(lines)
       /\ CumCount(BatchCount) = Len(lines)

C8_Witness ==
    /\ Packed
    /\ Len(lines) = 3
    /\ BatchCount = 3
    /\ \A i \in 1..BatchCount : Len(BatchLines(i)) = 1

\* C9 as stated: for every batch i but the last produced one, the bytes of
\* batches 0..i are at most floor(T*(i+1)/N) and one more line exceeds it.
C9_LargestPrefixWithinBudget ==
    Packed
    => \A i \in 1..(BatchCount - 1) :
          /\ CumBytes(i) <= Budget(i)
          /\ CumBytes(i) + size_of_line(Stream(lines)[CumCount(i) + 1]) > Budget(i)

\* C9 as amended: one more line always exceeds the budget, and the bytes of
\* batches 0..i are within it unless batch i (i >= 1) holds nothing but the
\* line carried over from batch i-1.
C9_WithinBudgetUnlessCarriedAlone ==
    Packed
    => \A i \in 1..(BatchCount - 1) :
          /\ CumBytes(i) <= Budget(i) \/ (i > 1 /\ Len(BatchLines(i)) = 1)
          /\ CumBytes(i) + size_of_line(Stream(lines)[CumCount(i) + 1]) > Budget(i)

C9_Witness ==
    /\ Packed
    /\ \E i \in 2..(BatchCount - 1) : CumBytes(i) > Budget(i) /\ Len(BatchLines(i)) = 1
    /\ \E i \in 1..(BatchCount - 1) : CumBytes(i) <= Budget(i) /\ Len(BatchLines(i)) >= 1

\* C10: every produced batch i < N-1 differs in bytes from T/N by at most the
\* bytes of the largest line (compared after multiplying by N).
C10_ByteBalance ==
    Packed
    => \A i \in 1..BatchCount :
          (i - 1 < optimal_file_number - 1)
          => Abs(BatchBytes(i) * optimal_file_number - StreamBytes)
                <= optimal_file_number * MaxLineBytes

C10_Witness ==
    /\ Packed
    /\ BatchCount < optimal_file_number
    /\ BatchBytes(BatchCount) * optimal_file_number > StreamBytes
    /\ \E i \in 1..(BatchCount - 1) : BatchBytes(i) * optimal_file_number < StreamBytes

\* ------------------------------------------------------ the index directory
\* The files directly or indirectly below the resource directory.
FilesInResourceDir == {p \in DOMAIN disk : InDir(p, ResourceDir)}

\* C11: a build with chosen count N makes N' <= N batch files and no other,
\* and the separator list, the count line of .index and the .storage manifest
\* each have N' entries.
C11_DirectoryReflectsProduced ==
    Packed
    => /\ BatchCount <= optimal_file_number
       /\ \A n \in 0..(optimal_file_number - 1) :
             batch_file_path(n, optimal_file_number) \in DOMAIN disk <=> n < BatchCount
       /\ Len(start_lines) = BatchCount
       /\ index_data_path \in DOMAIN disk
       /\ readline(AfterFirstLine(disk[index_data_path])) = Decimal(BatchCount) \o <<NL>>
       /\ storage_data_path \in DOMAIN disk
       /\ Len(read_lines(disk, storage_data_path)) = BatchCount

\* C16: after a build of N batches .index is last_line, the decimal N and the
\* N separators, N+2 lines in all, and .storage is the N batch paths, one a line.
C16_SidecarFormat ==
    Packed
    => /\ index_data_path \in DOMAIN disk
       /\ read_lines(disk, index_data_path)
             = <<last_line, Decimal(BatchCount) \o <<NL>>>> \o start_lines
       /\ Len(read_lines(disk, index_data_path)) = BatchCount + 2
       /\ storage_data_path \in DOMAIN disk
       /\ read_lines(disk, storage_data_path)
             = [i \in 1..BatchCount |-> file_paths[i] \o <<NL>>]

\* C17: after index_lines(L) a load_index() on the same directory gives the
\* last_line, separators and batch paths of the returned index, so has
\* answers alike on both.
C17_ReloadEqualsBuilt ==
    (CallEnded /\ lines # <<>>)
    => /\ result["index_lines"] = "returned"
       /\ load_index(disk).err = "ok"
       /\ load_index(disk).index.last_line = last_line
       /\ load_index(disk).index.batch_start_lines = start_lines
       /\ load_index(disk).index.paths = file_paths
       /\ \A q \in QueriesFor(lines) :
             has(load_index(disk).index, disk, q)
               = has(LineBatchedIndex("index_lines", last_line, start_lines, file_paths),
                     disk, q)

\* C15: after a build, whatever the resource directory held before, it holds
\* exactly .index, .storage and the batch files of this build, and no
\* subdirectory.
C15_DirectoryHoldsOnlyTheBuild ==
    Packed
    => /\ FilesInResourceDir
             = {index_data_path, storage_data_path} \cup Range(file_paths)
       /\ \A q \in dirs : ~InDir(q, ResourceDir)

\* ------------------------------------------------------- the file counts
OutOfLimits(count) == count < 1 \/ count > 1000000000

WantedIsSet == args.wanted_file_count # <<>>

\* What the configuration rules call invalid, said of the arguments.
BadArgs ==
    \/ OutOfLimits(args.min_file_count)
    \/ OutOfLimits(args.max_file_count)
    \/ WantedIsSet /\ OutOfLimits(args.wanted_file_count[1])
    \/ args.max_file_count < args.min_file_count
    \/ WantedIsSet /\ \/ args.wanted_file_count[1] < args.min_file_count
                      \/ args.wanted_file_count[1] > args.max_file_count

\* C13: constructing IndexerOptions raises ValueError exactly when a count is
\* outside [1, 1000000000], or max < min, or a set wanted count is outside
\* [min, max]; otherwise the getters give back the arguments.
C13_RaisesExactlyWhenInvalid ==
    (returned.outcome # "none")
    => /\ (returned.outcome = "ValueError") <=> BadArgs
       /\ ~BadArgs =>
             /\ returned.outcome = "returned"
             /\ options.min_file_count = args.min_file_count
             /\ options.max_file_count = args.max_file_count
             /\ options.wanted_file_count = args.wanted_file_count

C13_Witness ==
    /\ returned.outcome = "ValueError"
    /\ ~OutOfLimits(args.min_file_count)
    /\ ~OutOfLimits(args.max_file_count)
    /\ args.min_file_count <= args.max_file_count
    /\ WantedIsSet
    /\ ~OutOfLimits(args.wanted_file_count[1])
    /\ args.wanted_file_count[1] > args.max_file_count

\* The count asked for: wanted_file_count when set, 1000 otherwise.
AskedCount == IF WantedIsSet THEN args.wanted_file_count[1] ELSE 1000

Clamp(x, low, high) == IF x < low THEN low ELSE IF x > high THEN high ELSE x

\* C12 as stated: the chosen N lies in [min_file_count, min(max_file_count, L)]
\* for every valid IndexerOptions and every L >= 1.
C12_BetweenMinAndLines ==
    (optimal_file_number # 0 /\ returned.outcome = "returned")
    => /\ args.min_file_count <= optimal_file_number
       /\ optimal_file_number <= Min(args.max_file_count, line_count)

\* C12 as amended: N is the asked count raised to min_file_count and then cut
\* to min(max_file_count, L).  1 <= N <= min(max_file_count, L) always;
\* N >= min_file_count exactly when L >= min_file_count, and N = L otherwise.
C12_CutToLinesLast ==
    (optimal_file_number # 0 /\ returned.outcome = "returned")
    => /\ 1 <= optimal_file_number
       /\ optimal_file_number <= Min(args.max_file_count, line_count)
       /\ (args.min_file_count <= optimal_file_number)
             <=> (args.min_file_count <= line_count)
       /\ line_count >= args.min_file_count
             => optimal_file_number
                  = Clamp(AskedCount, args.min_file_count,
                          Min(args.max_file_count, line_count))
       /\ line_count < args.min_file_count => optimal_file_number = line_count

C12_Witness ==
    /\ returned.outcome = "returned"
    /\ optimal_file_number = line_count
    /\ line_count < args.min_file_count

\* ------------------------------------------------------- what has reads
StrLessEq(a, b) == a = b \/ StrLess(a, b)

\* The largest i with S[i] <= line, counted from 1.
LastSeparatorUpTo(line) ==
    CHOOSE i \in 1..Len(index.batch_start_lines) :
        /\ StrLessEq(index.batch_start_lines[i], line)
        /\ \A j \in (i + 1)..Len(index.batch_start_lines) :
              ~StrLessEq(index.batch_start_lines[j], line)

Merged == returned.outcome = "returned"

MergeInputLines == UNION {Range(read_lines(disk, args[g])) : g \in 1..Len(args)}

MergeTotal == count_lines(disk, args)

MergeOutput(n) == read_lines(disk, returned.value[n])

\* The lines of the output files in output order.
MergedOutput ==
    readlines(Concat([n \in 1..Len(returned.value) |-> disk[returned.value[n]]]))

\* The distinct input lines in ascending order.
MergedUnique ==
    CHOOSE f \in [1..Cardinality(MergeInputLines) -> MergeInputLines] :
        StrictlyIncreasing(f)

\* floor(total * n / K)
MergeLimit(n) == (MergeTotal * n) \div Len(args)

OutputFilesOnDisk == {q \in DOMAIN disk : InDir(q, OutputDir)}

\* C18: the output files of merge_sorted_files, read in output order, are
\* strictly increasing and hold exactly the distinct input lines.
C18_MergedIsSortedAndUnique ==
    Merged
    => /\ StrictlyIncreasing(MergedOutput)
       /\ Range(MergedOutput) = MergeInputLines

C18_Witness ==
    /\ Merged
    /\ Len(returned.value) >= 2
    /\ MergeTotal > Cardinality(MergeInputLines)
    /\ Cardinality(MergeInputLines) >= 2
    /\ \E n \in 1..(Len(returned.value) - 1) :
          MergeOutput(n) # <<>> /\ MergeOutput(n + 1) # <<>>

\* C19 as stated: merge_sorted_files given K sorted input files creates and
\* returns exactly K output files, duplicates and empty files included.
C19_ExactlyAsManyAsInputs ==
    Merged
    => /\ Len(returned.value) = Len(args)
       /\ OutputFilesOnDisk = Range(returned.value)

\* C19 as amended: the files returned are the files created, at most K of
\* them; exactly K when no input line occurs twice; with duplicates the call
\* returns as soon as the inputs are used up, after the first n files whose
\* limit floor(total*n/K) reaches the number of distinct lines.
C19_AtMostAsManyAsInputs ==
    Merged
    => /\ Len(returned.value) <= Len(args)
       /\ Len(args) >= 1 => Len(returned.value) >= 1
       /\ OutputFilesOnDisk = Range(returned.value)
       /\ MergeTotal = Cardinality(MergeInputLines) => Len(returned.value) = Len(args)
       /\ Len(args) >= 1 =>
             /\ MergeLimit(Len(returned.value)) >= Cardinality(MergeInputLines)
             /\ MergeLimit(Len(returned.value) - 1) <= Cardinality(MergeInputLines)

C19_Witness ==
    /\ Merged
    /\ Len(returned.value) < Len(args)
    /\ MergeInputLines # {}

\* C20: output file j holds the distinct lines of rank in
\* (floor(total*j/K), floor(total*(j+1)/K)]; every file before the last
\* written one holds exactly floor(total*(j+1)/K) - floor(total*j/K) lines,
\* the last written one at most that many.
C20_EquiLineCount ==
    (Merged /\ Len(args) >= 1)
    => \A n \in 1..Len(returned.value) :
          /\ MergeOutput(n)
                = SubSeq(MergedUnique, MergeLimit(n - 1) + 1,
                         Min(MergeLimit(n), Cardinality(MergeInputLines)))
          /\ n < Len(returned.value)
                => Len(MergeOutput(n)) = MergeLimit(n) - MergeLimit(n - 1)
          /\ n = Len(returned.value)
                => Len(MergeOutput(n)) <= MergeLimit(n) - MergeLimit(n - 1)

C20_Witness ==
    /\ Merged
    /\ Len(returned.value) >= 2
    /\ MergeOutput(1) # <<>>
    /\ Len(MergeOutput(Len(returned.value)))
          < MergeLimit(Len(returned.value)) - MergeLimit(Len(returned.value) - 1)
\* The directory that holds a file, as the operating system resolves it.
DirectoryOf(path) == resolved(get_parent_path(path))

InputDirectories == {DirectoryOf(args.input_paths[g]) : g \in 1..Len(args.input_paths)}

NothingCreated ==
    /\ dirs = {InputDir}
    /\ DOMAIN disk = Range(args.input_paths)

\* C21 as stated: merge_sorted_files writes no output file into a directory
\* that holds one of its input files; when output_dir is the directory of an
\* input file the call raises ValueError and has created neither the output
\* directory nor any file.
C21_NeverIntoAnInputDirectory ==
    returned.outcome # "none" =>
       /\ \A p \in DOMAIN disk :
             p \notin Range(args.input_paths) => DirectoryOf(p) \notin InputDirectories
       /\ resolved(args.output_dir) \in InputDirectories
             => returned.outcome = "ValueError" /\ NothingCreated
\* The second call has returned: args are the files of the first run, the
\* value returned those of the second.
Remerged == AgainDir \in dirs /\ returned.outcome = "returned"

\* The input files of the first run, still on the disk.
FirstInputs ==
    [g \in 1..Cardinality({p \in DOMAIN disk : InDir(p, InputDir)}) |->
        merge_input_path(g - 1)]

FirstInputsRepeatNoLine ==
    count_lines(disk, FirstInputs)
        = Cardinality(UNION {Range(read_lines(disk, FirstInputs[g])) :
                             g \in 1..Len(FirstInputs)})

RECURSIVE AllOf(_, _)
AllOf(d, paths) ==
    IF paths = <<>> THEN <<>> ELSE d[Head(paths)] \o AllOf(d, Tail(paths))

\* C22 as stated: the files a second merge makes of the first run's output
\* files are identical to them, file by file.
C22_RemergeIdenticalFileByFile ==
    Remerged =>
       /\ Len(returned.value) = Len(args)
       /\ \A n \in 1..Len(args) : disk[returned.value[n]] = disk[args[n]]

\* C22 as amended: the second run returns as many files as the first, and the
\* same lines in the same order over all files; file by file they are
\* identical when the inputs of the first run repeated no line.
C22_RemergeSameLines ==
    Remerged =>
       /\ Len(returned.value) = Len(args)
       /\ AllOf(disk, returned.value) = AllOf(disk, args)
       /\ FirstInputsRepeatNoLine =>
             \A n \in 1..Len(args) : disk[returned.value[n]] = disk[args[n]]

C22_Witness ==
    /\ Remerged
    /\ FirstInputsRepeatNoLine
    /\ Len(args) = 2
    /\ disk[args[1]] # <<>> /\ disk[args[2]] # <<>>
\* The indices, from 0, of the items that are not smaller than the item
\* searched for.
NotSmaller == {i \in 0..(Len(args.sorted_items) - 1) :
                  ~StrLess(args.sorted_items[i + 1], args.item)}

\* C23 as stated: bs_upper_index returns the smallest index i with
\* A[i] >= x, and None exactly when A is empty or x is greater than the last
\* element; FileLineBatch.upper returns the line at that index, the smallest
\* batch line that is not smaller than the query.
C23_CeilIndex ==
    returned.outcome = "returned" =>
       /\ args.function = "bs_upper_index" =>
             IF NotSmaller = {} THEN returned.value = None
             ELSE /\ returned.value \in NotSmaller
                  /\ \A i \in NotSmaller : returned.value <= i
       /\ args.function = "upper" =>
             IF NotSmaller = {} THEN returned.value = <<>>
             ELSE \E i \in NotSmaller :
                     /\ returned.value = <<args.sorted_items[i + 1]>>
                     /\ \A j \in NotSmaller : i <= j
\* What build_index_for_data owes for the files it was given.
BuiltForData ==
    IF file_paths = <<>> \/ \E i \in 1..Len(file_paths) : disk[file_paths[i]] = <<>>
    THEN result["build_index_for_data"] = "ValueError"
    ELSE /\ result["build_index_for_data"] = "returned"
         /\ index.origin = "build_index_for_data"
         /\ index.batch_start_lines =
                [i \in 1..Len(file_paths) |-> read_lines(disk, file_paths[i])[1]]
         /\ LET final == read_lines(disk, file_paths[Len(file_paths)])
            IN  index.last_line = final[Len(final)]

\* C24: build_index_for_data raises ValueError when the path list is empty
\* or a listed file has no lines; otherwise the index it returns has the
\* first line of file i as S[i] and the last line of the final file as
\* last_line; in every case the files and directories are left as they were.
C24_BuildForDataReadsOnly ==
    [][result["build_index_for_data"]' # result["build_index_for_data"]
          => /\ disk' = disk
             /\ dirs' = dirs
             /\ BuiltForData']_vars

C24_Witness ==
    /\ result["build_index_for_data"] = "returned"
    /\ Len(file_paths) >= 2
    /\ index.last_line # read_lines(disk, file_paths[1])[Len(read_lines(disk, file_paths[1]))]
\* A sequence of integers without the items that repeat the one before.
RECURSIVE WithoutRepeats(_)
WithoutRepeats(seq) ==
    IF Len(seq) <= 1 THEN seq
    ELSE LET front == WithoutRepeats(SubSeq(seq, 1, Len(seq) - 1))
         IN  IF seq[Len(seq)] = front[Len(front)] THEN front
             ELSE Append(front, seq[Len(seq)])

\* C25 as stated: the integers handed to the handler of a fresh Progress
\* during a build are 0, then floor(100*(i+1)/N) for every closed batch i
\* where that differs from the integer before, then 100: the sequence starts
\* with 0, ends with 100 and never decreases or repeats.
C25_ProgressFromStartToDone ==
    Packed =>
       /\ progress.handled =
             WithoutRepeats(<<0>>
                            \o [i \in 1..(Len(file_paths) - 1) |->
                                   (100 * i) \div optimal_file_number]
                            \o <<100>>)
       /\ progress.handled[1] = 0
       /\ progress.handled[Len(progress.handled)] = 100
       /\ \A k \in 1..(Len(progress.handled) - 1) :
             progress.handled[k] < progress.handled[k + 1]
\* ceil(log16(n)) for n >= 1: the least w with 16^w >= n.
CeilLog16(n) == CHOOSE w \in 0..8 : 16^w >= n /\ \A v \in 0..(w - 1) : 16^v < n

UpperHexDigits == (48..57) \cup (65..70)

RECURSIVE HexValue(_)
HexValue(digits) ==
    IF digits = <<>> THEN 0
    ELSE 16 * HexValue(SubSeq(digits, 1, Len(digits) - 1))
         + (LET c == digits[Len(digits)] IN IF c <= 57 THEN c - 48 ELSE c - 55)

\* What stands between the resource directory and ".dat" in the path made.
NameDigits ==
    SubSeq(returned.value, Len(ResourceDir) + 2, Len(returned.value) - Len(DatSuffix))

\* The path is the resource directory, uppercase hexadecimal digits that
\* spell the batch number, and ".dat".
NamesTheBatch ==
    /\ returned.value = join_paths(ResourceDir, NameDigits \o DatSuffix)
    /\ Range(NameDigits) \subseteq UpperHexDigits
    /\ NameDigits # <<>>
    /\ HexValue(NameDigits) = args.file_number

\* C26 as stated: the batch number is padded with zeros to
\* ceil(log16(max_file_count)) digits, whatever the number of batches planned.
C26_WidthOfTheCeiling ==
    returned.outcome = "returned" =>
       /\ NamesTheBatch
       /\ Len(NameDigits) = CeilLog16(args.max_file_count)

\* C26 as amended: the batch number is padded with zeros to
\* ceil(log16(N)) digits, N being the number of batches planned; a single
\* batch is named by the one digit 0.
C26_WidthOfThePlannedCount ==
    returned.outcome = "returned" =>
       /\ NamesTheBatch
       /\ Len(NameDigits) = Max(1, CeilLog16(args.optimal_file_number))

C26_Witness ==
    /\ returned.outcome = "returned"
    /\ args.optimal_file_number = 17
    /\ args.file_number = 10
    /\ args.max_file_count = DEFAULT_MAX_FILE_COUNT
    /\ NameDigits = <<48, 65>>
\* A call of index or index_lines begins (and, failing, ends) with this step.
BuildCalled == pc = "idle" /\ pc' # "idle"

IndexCalled == BuildCalled /\ result'["index"] # "none"

IndexLinesCalled == BuildCalled /\ result'["index"] = "none"

\* The files handed to index all exist and hold no line.
ZeroLinesInAll ==
    /\ args' # <<>>
    /\ \A i \in 1..Len(args') : args'[i] \in DOMAIN disk /\ disk[args'[i]] = <<>>

\* The step did no more to the disk than make or empty the resource
\* directory: nothing was written, nothing outside it was removed.
OnlyEmptied ==
    /\ \A p \in DOMAIN disk' :
          ~InDir(p, ResourceDir) /\ p \in DOMAIN disk /\ disk'[p] = disk[p]
    /\ \A p \in DOMAIN disk : ~InDir(p, ResourceDir) => p \in DOMAIN disk'
    /\ dirs' = {q \in dirs : ~InDir(q, ResourceDir)} \cup {ResourceDir}

\* C27 as stated: index([]), index_lines([]) and index(paths) of files
\* without any line fail with ValueError; index([]) leaves disk and
\* directories as they were, the other two do no more than make or empty the
\* resource directory.
C27_EmptyInputIsValueError ==
    [][/\ IndexCalled /\ args' = <<>>
            => result'["index"] = "ValueError" /\ disk' = disk /\ dirs' = dirs
       /\ IndexLinesCalled /\ lines' = <<>>
            => result'["index_lines"] = "ValueError" /\ OnlyEmptied
       /\ IndexCalled /\ ZeroLinesInAll
            => result'["index"] = "ValueError" /\ OnlyEmptied]_vars

\* C27 as amended: the same, except that index(paths) of files without any
\* line fails with FileNotFoundError when one of the files lies in the
\* resource directory, which is emptied before the files are read.
C27_EmptyInputFailsEarly ==
    [][/\ IndexCalled /\ args' = <<>>
            => result'["index"] = "ValueError" /\ disk' = disk /\ dirs' = dirs
       /\ IndexLinesCalled /\ lines' = <<>>
            => result'["index_lines"] = "ValueError" /\ OnlyEmptied
       /\ IndexCalled /\ ZeroLinesInAll
            => /\ OnlyEmptied
               /\ result'["index"] =
                     IF \E i \in 1..Len(args') : InDir(args'[i], ResourceDir)
                     THEN "FileNotFoundError" ELSE "ValueError"]_vars

C27_Witness ==
    /\ result["index"] = "ValueError"
    /\ Len(args) = 2
    /\ \A i \in 1..Len(args) : disk[args[i]] = <<>>
    /\ ResourceDir \in dirs
    /\ FilesInResourceDir = {}
    /\ progress.handled = <<0>>
\* C28: the packer leaves its loop over the batches by the return in the
\* StopIteration branch, in batch N-1 at the latest: the budget of batch N-1
\* is the whole size T, the loop is never used up and RuntimeError is never
\* raised.
C28_NeverTheUnexpectedBranch ==
    /\ result["index_lines"] # "RuntimeError"
    /\ pc \in {"for", "while"} =>
          /\ file_number < optimal_file_number
          /\ current_limit(total_size, optimal_file_number - 1, optimal_file_number)
                = total_size
          /\ processed_size <= total_size
    /\ Packed => file_number <= optimal_file_number - 1

C28_Witness ==
    /\ Packed
    /\ optimal_file_number >= 2
    /\ file_number = optimal_file_number - 1
    /\ Len(lines) >= 2
\* The values never rise along the array: the smallest stands at its end.
MinimumAtEnd(pairs) ==
    \A i \in 1..Len(pairs) : \A j \in (i + 1)..Len(pairs) :
        ~StrLess(pairs[i].value, pairs[j].value)

\* The call has returned, every generator has raised StopIteration and the
\* array is empty.
MergeReturnedExhausted ==
    /\ merging.pc = "done"
    /\ returned.outcome = "returned"
    /\ merging.exhausted = 1..Len(args)
    /\ merging.values_with_generators = <<>>

\* C29: merge_sorted_files comes to its end for every list of sorted input
\* files (empty files, no file, duplicates only); when it returns every
\* generator is exhausted; the priority array is in descending order, its
\* minimum at the end, after the sort and after every insert; and its end is
\* never read while it is empty (no IndexError).
C29_TerminatesExhausted ==
    /\ [](MinimumAtEnd(merging.values_with_generators)
           /\ returned.outcome # "IndexError")
    /\ <>[]MergeReturnedExhausted

C29_Witness ==
    /\ MergeReturnedExhausted
    /\ Len(args) = 2
    /\ MergeTotal > Cardinality(MergeInputLines)
    /\ Len(returned.value) = 2
    /\ \A g \in 1..Len(args) : merging.position[g] >= 2
====
